---------------------------- MODULE Spec2Model ----------------------------
(***************************************************************************)
(* A model of @zakkudo/api-tree: the tree of dispatch functions built by   *)
(* ApiTree (src/src/index.js), its overload matcher in the presence-count  *)
(* form (src/src/index.js) and in the present-minus-absent form            *)
(* (src/unnamed/part_002), and the merge / validate / fetch pipeline that  *)
(* every dispatch call runs.                                               *)
(*                                                                         *)
(* Strings that the code inspects or concatenates (path templates, param   *)
(* names, urls) are sequences of one-character strings.  A JavaScript      *)
(* object is a function from its own keys to its values.                   *)
(***************************************************************************)
EXTENDS Integers, Sequences, FiniteSets, TLC

(***************************************************************************)
(* JavaScript values                                                       *)
(***************************************************************************)
UNDEFINED == [t |-> "undefined"]
NULL == [t |-> "null"]
Str(s) == [t |-> "string", v |-> s]
Object(f) == [t |-> "object", v |-> f]
Array(a) == [t |-> "array", v |-> a]

\* a[i] for an array a and a 0-based index: undefined past the end
At(a, i) == IF i >= 0 /\ i < Len(a.v) THEN a.v[i + 1] ELSE UNDEFINED

\* the default of a destructuring pattern or of a parameter: x = d
Default(x, d) == IF x.t = "undefined" THEN d ELSE x

\* {}
EmptyObject == [k \in {} |-> NULL]

\* x || {} on a value that is undefined, null or an object
OrEmpty(x) == IF x.t = "object" THEN x.v ELSE EmptyObject

\* o[k] for an object o: undefined when k is not an own key
Get(o, k) == IF k \in DOMAIN o THEN o[k] ELSE UNDEFINED

\* AssignOne that keeps the value of the target on a key both have
AssignOne_targetWins(target, source) ==
    IF source.t = "object"
    THEN [k \in DOMAIN target \cup DOMAIN source.v |->
            IF k \in DOMAIN target THEN target[k] ELSE source.v[k]]
    ELSE target

\* AssignOne that merges the params of target and source key by key instead
\* of replacing them
AssignOne_mergeParams(target, source) ==
    IF source.t = "object"
    THEN [k \in DOMAIN target \cup DOMAIN source.v |->
            IF k \notin DOMAIN source.v THEN target[k]
            ELSE IF k = "params" /\ k \in DOMAIN target
                    /\ target[k].t = "object" /\ source.v[k].t = "object"
                 THEN [t |-> "object",
                       v |-> [n \in DOMAIN target[k].v \cup DOMAIN source.v[k].v |->
                                IF n \in DOMAIN source.v[k].v THEN source.v[k].v[n]
                                ELSE target[k].v[n]]]
                 ELSE source.v[k]]
    ELSE target

\* One step of Object.assign: copy the own keys of source onto target.
\* undefined and null sources are skipped.
AssignOne(target, source) ==
    IF source.t = "object"
    THEN [k \in DOMAIN target \cup DOMAIN source.v |->
            IF k \in DOMAIN source.v THEN source.v[k] ELSE target[k]]
    ELSE target

\* Object.assign(target, s1, s2, ...): sources applied left to right
RECURSIVE ObjectAssign(_, _)
ObjectAssign(target, sources) ==
    IF sources = <<>> THEN target
    ELSE ObjectAssign(AssignOne(target, Head(sources)), Tail(sources))

(***************************************************************************)
(* getTemplateVariables: pathname.match(/\/:[^/]+/g) then slice(2)         *)
(***************************************************************************)
\* [^/]+ is greedy: the first position at or after i holding "/" or past
\* the end of the pathname
RECURSIVE nameEnd(_, _)
nameEnd(pathname, i) ==
    IF i > Len(pathname) \/ pathname[i] = "/" THEN i
    ELSE nameEnd(pathname, i + 1)

\* the matches of /\/:[^/]+/g from position i on, left to right
RECURSIVE matchFrom(_, _)
matchFrom(pathname, i) ==
    IF i + 2 > Len(pathname) THEN <<>>
    ELSE IF pathname[i] = "/" /\ pathname[i + 1] = ":" /\ pathname[i + 2] # "/"
         THEN LET e == nameEnd(pathname, i + 2)
              IN  <<SubSeq(pathname, i, e - 1)>> \o matchFrom(pathname, e)
         ELSE matchFrom(pathname, i + 1)

\* p.slice(n)
Slice(p, n) == SubSeq(p, n + 1, Len(p))

getTemplateVariables(pathname) ==
    LET matches == matchFrom(pathname, 1)
    IN  [j \in 1..Len(matches) |-> Slice(matches[j], 2)]

(***************************************************************************)
(* getMatchingOverload                                                     *)
(***************************************************************************)
\* candidateParams without the endpoint params of the candidate
candidateParams_noEndpoint(o, baseOptions, overrideParams) ==
    ObjectAssign(EmptyObject,
        << Object(OrEmpty(Get(baseOptions, "params"))),
           Object(overrideParams) >>)

\* const [pathname, options = {}] = o;  params = Object.assign({}, ...)
candidateParams(o, baseOptions, overrideParams) ==
    LET options == Default(At(o, 1), Object(EmptyObject))
    IN  ObjectAssign(EmptyObject,
            << Object(OrEmpty(Get(baseOptions, "params"))),
               Object(OrEmpty(Get(options.v, "params"))),
               Object(overrideParams) >>)

\* variables.reduce(...) of src/src/index.js: one per placeholder present
RECURSIVE presentCount(_, _)
presentCount(variables, params) ==
    IF variables = <<>> THEN 0
    ELSE (IF Head(variables) \in DOMAIN params THEN 1 ELSE 0)
            + presentCount(Tail(variables), params)

\* presentMinusAbsent with the two branches swapped
RECURSIVE presentMinusAbsent_swapped(_, _)
presentMinusAbsent_swapped(variables, params) ==
    IF variables = <<>> THEN 0
    ELSE (IF Head(variables) \in DOMAIN params THEN -1 ELSE 1)
            + presentMinusAbsent_swapped(Tail(variables), params)

\* variables.reduce(...) of part_002: plus one when present, minus one when not
RECURSIVE presentMinusAbsent(_, _)
presentMinusAbsent(variables, params) ==
    IF variables = <<>> THEN 0
    ELSE (IF Head(variables) \in DOMAIN params THEN 1 ELSE -1)
            + presentMinusAbsent(Tail(variables), params)

\* count of candidate o in src/src/index.js
countOf(o, baseOptions, overrideParams) ==
    presentCount(getTemplateVariables(At(o, 0).v),
                 candidateParams(o, baseOptions, overrideParams))

\* count of candidate o in part_002
countOf_part002(o, baseOptions, overrideParams) ==
    presentMinusAbsent(getTemplateVariables(At(o, 0).v),
                       candidateParams(o, baseOptions, overrideParams))

\* better with >= for >: the last of the best candidates wins
better_lastWins(count, acc, index) ==
    IF count >= acc.matchCount
    THEN [matchCount |-> count, matchIndex |-> index]
    ELSE acc

\* if (count > matchCount) { matchCount = count; matchIndex = index; }
better(count, acc, index) ==
    IF count > acc.matchCount
    THEN [matchCount |-> count, matchIndex |-> index]
    ELSE acc

\* overloads.forEach of src/src/index.js, from the (0-based) index on
RECURSIVE forEachOverload(_, _, _, _, _)
forEachOverload(overloads, baseOptions, overrideParams, index, acc) ==
    IF index >= Len(overloads) THEN acc
    ELSE forEachOverload(overloads, baseOptions, overrideParams, index + 1,
            better(countOf(overloads[index + 1], baseOptions, overrideParams),
                   acc, index))

\* overloads.forEach of part_002
RECURSIVE forEachOverload_part002(_, _, _, _, _)
forEachOverload_part002(overloads, baseOptions, overrideParams, index, acc) ==
    IF index >= Len(overloads) THEN acc
    ELSE forEachOverload_part002(overloads, baseOptions, overrideParams, index + 1,
            better(countOf_part002(overloads[index + 1], baseOptions, overrideParams),
                   acc, index))

\* getMatchingOverload with matchCount starting at 0
getMatchingOverload_fromZero(overloads, baseOptions, overrideOptions) ==
    LET overrideParams == OrEmpty(Get(overrideOptions, "params"))
    IN  forEachOverload(overloads, baseOptions, overrideParams, 0,
            [matchCount |-> 0, matchIndex |-> -1]).matchIndex

\* src/src/index.js: matchCount = -1, matchIndex = -1; the result is 0-based
getMatchingOverload(overloads, baseOptions, overrideOptions) ==
    LET overrideParams == OrEmpty(Get(overrideOptions, "params"))
    IN  forEachOverload(overloads, baseOptions, overrideParams, 0,
            [matchCount |-> -1, matchIndex |-> -1]).matchIndex

\* part_002: matchCount = -1, matchIndex = 0
getMatchingOverload_part002(overloads, baseOptions, overrideOptions) ==
    LET overrideParams == OrEmpty(Get(overrideOptions, "params"))
    IN  forEachOverload_part002(overloads, baseOptions, overrideParams, 0,
            [matchCount |-> -1, matchIndex |-> 0]).matchIndex

(***************************************************************************)
(* The schema validator (ajv) as generateFetchMethod uses it               *)
(***************************************************************************)
Bool(b) == [t |-> "boolean", v |-> b]

\* if (x): undefined, null, false and the empty string are falsy
Truthy(x) ==
    CASE x.t = "undefined" -> FALSE
      [] x.t = "null" -> FALSE
      [] x.t = "boolean" -> x.v
      [] x.t = "string" -> x.v # <<>>
      [] OTHER -> TRUE

\* x || d
Or(x, d) == IF Truthy(x) THEN x ELSE d

DotParams == <<".", "p", "a", "r", "a", "m", "s">>

\* The schemas of the tests: {type: 'object', properties: {params: {type:
\* 'object', required: [...], properties: {name: {type: 'string'}, ...}}}}
\* is Object("params" :> [required |-> <<...>>, strings |-> <<...>>]),
\* and {} is Object(EmptyObject).
ParamsSchema(required, strings) ==
    Object("params" :> [required |-> required, strings |-> strings])

\* required: the first listed name that is not a key of params, in a
\* one-element list, or <<>> when every one is present
RECURSIVE firstMissing(_, _)
firstMissing(names, params) ==
    IF names = <<>> THEN <<>>
    ELSE IF Head(names) \notin DOMAIN params THEN <<Head(names)>>
    ELSE firstMissing(Tail(names), params)

\* properties: {name: {type: 'string'}}: the first listed name that is a key
\* of params with a value that is not a string
RECURSIVE firstNotString(_, _)
firstNotString(names, params) ==
    IF names = <<>> THEN <<>>
    ELSE IF Head(names) \in DOMAIN params /\ params[Head(names)].t # "string"
         THEN <<Head(names)>>
    ELSE firstNotString(Tail(names), params)

\* Validate without the type keyword under properties: only required is
\* applied to the keys of params
Validate_requiredOnly(schema, data) ==
    IF "params" \notin DOMAIN schema.v \/ "params" \notin DOMAIN data THEN NULL
    ELSE LET rule == schema.v["params"]
             params == data["params"]
         IN  IF params.t # "object"
             THEN Array(<< [keyword |-> "type", dataPath |-> DotParams,
                            params |-> <<"o", "b", "j", "e", "c", "t">>] >>)
             ELSE LET missing == firstMissing(rule.required, params.v)
                  IN  IF missing # <<>>
                      THEN Array(<< [keyword |-> "required", dataPath |-> DotParams,
                                     params |-> missing[1]] >>)
                      ELSE NULL

\* compiled(data): the value ajv leaves in compiled.errors. It stops at the
\* first error; null when data is valid.  A keyword under properties.params
\* applies only when data has a params key.
Validate(schema, data) ==
    IF "params" \notin DOMAIN schema.v \/ "params" \notin DOMAIN data THEN NULL
    ELSE LET rule == schema.v["params"]
             params == data["params"]
         IN  IF params.t # "object"
             THEN Array(<< [keyword |-> "type", dataPath |-> DotParams,
                            params |-> <<"o", "b", "j", "e", "c", "t">>] >>)
             ELSE LET missing == firstMissing(rule.required, params.v)
                      wrong == firstNotString(rule.strings, params.v)
                  IN  IF missing # <<>>
                      THEN Array(<< [keyword |-> "required", dataPath |-> DotParams,
                                     params |-> missing[1]] >>)
                      ELSE IF wrong # <<>>
                      THEN Array(<< [keyword |-> "type",
                                     dataPath |-> DotParams \o <<".">> \o wrong[1],
                                     params |-> <<"s", "t", "r", "i", "n", "g">>] >>)
                      ELSE NULL

(***************************************************************************)
(* generateFetchMethod                                                     *)
(***************************************************************************)
\* Array.isArray(data) && Array.isArray(data[0])
isOverloaded(data) == data.t = "array" /\ At(data, 0).t = "array"

\* The errors property of every validating function that generateFetchMethod
\* compiles for config: one per candidate of a group, one for a single
\* definition.  ajv creates it as null.
compile(config) ==
    IF isOverloaded(config) THEN [j \in 1..Len(config.v) |-> NULL]
    ELSE << NULL >>

\* compiledSchema that takes the validator of the first candidate of a group
compiledSchema_first(config, index) ==
    IF isOverloaded(config)
    THEN Or(At(At(config, 0), 2), Object(EmptyObject))
    ELSE Default(At(config, 2), Object(EmptyObject))

\* the schema the validating function of a definition was compiled from:
\* c[2] || {} for a candidate of a group, schema = {} for a single definition
compiledSchema(config, index) ==
    IF isOverloaded(config)
    THEN Or(At(At(config, index), 2), Object(EmptyObject))
    ELSE Default(At(config, 2), Object(EmptyObject))

\* fromJS(x) of immutable: a plain object becomes a Map, deeply; other
\* values are kept
RECURSIVE fromJS(_)
fromJS(x) ==
    IF x.t = "object"
    THEN [t |-> "Map", v |-> [k \in DOMAIN x.v |-> fromJS(x.v[k])]]
    ELSE x

\* the plain value of an immutable value: a Map becomes a plain object, deeply
RECURSIVE plain(_)
plain(x) ==
    IF x.t = "Map"
    THEN Object([k \in DOMAIN x.v |-> plain(x.v[k])])
    ELSE x

\* toJS that hands out the root's own object
toJS_shared(m) == [ref |-> "root", v |-> plain(m).v]

\* self.options.toJS(): a deep copy, so the snapshot is a new object and not
\* the root's.  ref names the object a later write reaches.
toJS(m) == [ref |-> "fresh", v |-> plain(m).v]

\* runValidator without the validate flag: the schema is always applied
runValidator_ignoreFlag(before, validate, schema, options) ==
    Validate(schema, options)

\* runValidator without the delete: a skipped validation reads the errors
\* the previous call left
runValidator_noDelete(before, validate, schema, options) ==
    IF Truthy(validate) THEN Validate(schema, options) ELSE before

\* delete compiled.errors; if (validate) { compiled(options); }
\* const errors = compiled.errors;
\* before is the errors property the previous call left on the validator
runValidator(before, validate, schema, options) ==
    LET deleted == UNDEFINED
    IN  IF Truthy(validate) THEN Validate(schema, options) ELSE deleted

\* outcome without the early return: the call goes on to fetch
outcome_fallThrough(errors) == "fetch"

\* if (errors) { return Promise.reject(new ValidationError(...)); }
\* return fetch(url, options);
outcome(errors) == IF Truthy(errors) THEN "ValidationError" ELSE "fetch"

\* overrideOptions.params on a value with no properties to read: a TypeError
\* on null (undefined never gets here, the default parameter replaced it)
readThrows(x) == x.t \in {"undefined", "null"}

\* the url without the root's baseUrl
urlOf_pathOnly(selfBaseUrl, pathname) == pathname.v

\* const url = `${self.baseUrl}${pathname}`;
urlOf(selfBaseUrl, pathname) == selfBaseUrl \o pathname.v

\* new ValidationError(url, errors, schema): the arguments the error is
\* constructed from (its message is built by ValidationError below)
newValidationError(url, errors, schema) ==
    [name |-> "ValidationError", url |-> url, errors |-> errors, schema |-> schema]

\* return Promise.reject(new ValidationError(url, errors, schema));
\* calls: the invocations of fetch the call makes; returns: what it returns
rejected(url, errors, schema) ==
    [calls |-> << >>,
     returns |-> [of |-> "Promise.reject",
                  reason |-> newValidationError(url, errors, schema)]]

\* fetched that returns a promise chained on the one fetch returned
fetched_chained(url, options) ==
    [calls |-> << [url |-> url, options |-> options] >>,
     returns |-> [of |-> "then", call |-> 1]]

\* return fetch(url, options);
\* returns is the very value invocation number call of calls returned
fetched(url, options) ==
    [calls |-> << [url |-> url, options |-> options] >>,
     returns |-> [of |-> "fetch", call |-> 1]]

\* a TypeError thrown out of the call
thrown == [calls |-> << >>, returns |-> [of |-> "throw"]]

\* The body of the function generateFetchMethod returns, run on the state
\* (self.options, self.baseUrl, compiled[..].errors) with the arguments
\* (overrideArg, validateArg).
fetchMethod(config, errorsBefore, selfOptions, selfBaseUrl, overrideArg, validateArg) ==
    LET overrideOptions == Default(overrideArg, Object(EmptyObject))
        validate == Default(validateArg, Bool(TRUE))
        baseOptions == toJS(selfOptions)
        \* getMatchingOverload reads overrideOptions.params
        threw == isOverloaded(config) /\ readThrows(overrideOptions)
        index == IF isOverloaded(config)
                 THEN getMatchingOverload(config.v, baseOptions.v,
                                          OrEmpty(overrideOptions))
                 ELSE 0
        overload == IF isOverloaded(config) THEN At(config, index) ELSE config
        pathname == At(overload, 0)
        endpointOptions == At(overload, 1)
        schema == Default(At(overload, 2), Object(EmptyObject))
        \* Object.assign({}, baseOptions, ...) for a group,
        \* Object.assign(baseOptions, ...) for a single definition
        target == IF isOverloaded(config)
                  THEN [ref |-> "fresh", v |-> EmptyObject]
                  ELSE baseOptions
        sources == IF isOverloaded(config)
                   THEN << Object(baseOptions.v), endpointOptions, overrideOptions >>
                   ELSE << endpointOptions, overrideOptions >>
        options == ObjectAssign(target.v, sources)
        url == urlOf(selfBaseUrl, pathname)
        errors == runValidator(errorsBefore[index + 1], validate,
                               compiledSchema(config, index), options)
        out == IF threw THEN "throw" ELSE outcome(errors)
        result == CASE out = "throw" -> thrown
                    [] out = "ValidationError" -> rejected(url, errors, schema)
                    [] OTHER -> fetched(url, options)
    IN  [index |-> index,
         url |-> url,
         options |-> options,
         written |-> target.ref,
         errorsBefore |-> errorsBefore[index + 1],
         errorsAfter |-> IF threw THEN errorsBefore
                         ELSE [errorsBefore EXCEPT ![index + 1] = errors],
         out |-> out,
         errors |-> errors,
         schema |-> schema,
         calls |-> result.calls,
         returns |-> result.returns]

(***************************************************************************)
(* The configuration the model checks: the shapes of src/src/test.js and   *)
(* of the README, with one-letter names                                    *)
(***************************************************************************)
\* param names: id, firstName, limit
id == <<"i">>
firstName == <<"f">>
limit == <<"l">>

PathUsersId == <<"/", "u", "/", ":", "i">>
PathId == <<"/", "p", "/", ":", "i">>
PathList == <<"/", "p">>

V1234 == Str(<<"1", "2", "3", "4">>)
V10 == Str(<<"1", "0">>)

\* properties.params: required ['firstName'], firstName of type string
SchemaFirstName == ParamsSchema(<<firstName>>, <<firstName>>)

HeadersA1 == Object("A" :> V1234)
HeadersA2B2 == Object("A" :> V10 @@ "B" :> V10)
HeadersB3 == Object("B" :> V1234)

\* new ApiTree(baseUrl, Tree, options)
Tree ==
    [ get   |-> Array(<< Str(PathUsersId), Object("headers" :> HeadersA2B2),
                         SchemaFirstName >>),
      first |-> Array(<< Array(<< Str(PathId) >>),
                         Array(<< Str(PathList),
                                  Object("params" :> Object(limit :> V10)) >>) >>),
      last  |-> Array(<< Array(<< Str(PathList) >>),
                         Array(<< Str(PathId), Object(EmptyObject),
                                  SchemaFirstName >>) >>) ]

Keys == DOMAIN Tree

\* the options argument of the constructor
CtorOptions == Object("headers" :> HeadersA1 @@ "params" :> Object(id :> V1234))

\* the values the root's options take: the constructor's, and those a holder
\* of the root changes them to
BaseOptionsSet ==
    { Object(EmptyObject),
      CtorOptions,
      Object("params" :> Object(firstName :> NULL)) }

\* the first argument of a dispatch call; UNDEFINED is the omitted argument
OverrideSet ==
    { UNDEFINED,
      Object("params" :> Object(EmptyObject)),
      Object("params" :> Object(id :> V1234)),
      Object("params" :> Object(firstName :> V1234)),
      Object("params" :> Object(firstName :> NULL)),
      Object("headers" :> HeadersB3) }

\* the second argument of a dispatch call
ValidateSet == { UNDEFINED, Bool(TRUE), Bool(FALSE) }

\* the baseUrl argument of the constructor
BaseUrlSet == { NULL, Str(<<"h">>) }

\* the values a holder of the root changes its baseUrl to
RootUrlSet == { Str(<< >>), Str(<<"h">>) }

\* the number of dispatch calls of a behaviour
MaxCalls == 2

(***************************************************************************)
(* State                                                                   *)
(***************************************************************************)
VARIABLES
    baseUrl,        \* self.baseUrl
    options,        \* self.options, as the plain value toJS() gives
    tree,           \* the endpoint definitions the dispatch functions close over
    compiled,       \* compiled[key][index + 1]: the errors property of a validator
    nCalls,         \* dispatch calls made
    fetchCount,     \* invocations of fetch
    pending,        \* fetch results that have not settled yet
    callerOverride, \* the object the caller passed to the last call, after the call
    last,           \* the last dispatch call: its arguments and what it did
    inflight,       \* the invocations a fetch that keeps its arguments still holds
    mOverloads,     \* getMatchingOverload on its own: the overloads argument
    mBase,          \*   the baseOptions argument
    mOverride,      \*   the overrideOptions argument
    mIndex,         \*   the result of src/src/index.js
    mIndex_part002, \*   the result of part_002
    mDone,          \*   the matchers have run
    ctor,           \* new ApiTree(...) on its own: the arguments and what it built
    verr,           \* new ValidationError(...) on its own: the arguments and the error
    tmpl            \* getTemplateVariables on its own: the pathname and the result

treeVars == << baseUrl, options, tree, compiled, nCalls, fetchCount, pending,
               callerOverride, last, inflight >>
matchVars == << mOverloads, mBase, mOverride, mIndex, mIndex_part002, mDone >>
vars == << baseUrl, options, tree, compiled, nCalls, fetchCount, pending,
           callerOverride, last, inflight,
           mOverloads, mBase, mOverride, mIndex, mIndex_part002, mDone,
           ctor, verr, tmpl >>

NoCall ==
    [key |-> "", base |-> EmptyObject, baseUrl |-> <<>>, override |-> UNDEFINED,
     validate |-> UNDEFINED, index |-> 0, url |-> <<>>, options |-> EmptyObject,
     errorsBefore |-> UNDEFINED, out |-> "none", errors |-> UNDEFINED,
     schema |-> UNDEFINED, calls |-> << >>, returns |-> [of |-> "none"]]

\* constructor(baseUrl, tree, options = {})
constructor(baseUrlArg, treeArg, optionsArg) ==
    /\ baseUrl = Or(baseUrlArg, Str(<<>>)).v
    /\ options = fromJS(Default(optionsArg, Object(EmptyObject)))
    /\ tree = treeArg
    /\ compiled = [k \in DOMAIN treeArg |-> compile(treeArg[k])]
    /\ nCalls = 0
    /\ fetchCount = 0
    /\ pending = 0
    /\ callerOverride = UNDEFINED
    /\ last = NoCall
    /\ inflight = << >>

\* no matcher run on its own
MatchIdle ==
    /\ mOverloads = << >>
    /\ mBase = EmptyObject
    /\ mOverride = EmptyObject
    /\ mIndex = -1
    /\ mIndex_part002 = -1
    /\ mDone = FALSE

\* no constructor run on its own
CtorIdle == ctor = [phase |-> "idle"]

\* no ValidationError constructed on its own
ErrorIdle == verr = [phase |-> "idle"]

\* no getTemplateVariables run on its own
PathIdle == tmpl = [phase |-> "idle"]

Init ==
    /\ \E b \in BaseUrlSet : constructor(b, Tree, CtorOptions)
    /\ MatchIdle
    /\ CtorIdle
    /\ ErrorIdle
    /\ PathIdle

\* the object named ref after Object.assign wrote value to the object named
\* written: only the written object changes
afterWrite(ref, written, value, old) == IF written = ref THEN value ELSE old

\* Call with the base options captured when the tree was built instead of
\* read from the root at the call
Call_captured(key, overrideArg, validateArg) ==
    /\ nCalls < MaxCalls
    /\ \E r \in { fetchMethod(tree[key], compiled[key],
                             fromJS(Default(CtorOptions, Object(EmptyObject))),
                             baseUrl, overrideArg, validateArg) } :
           /\ compiled' = [compiled EXCEPT ![key] = r.errorsAfter]
           /\ options' = afterWrite("root", r.written, fromJS(Object(r.options)), options)
           /\ callerOverride' =
                 afterWrite("override", r.written, Object(r.options), overrideArg)
           /\ fetchCount' = fetchCount + Len(r.calls)
           /\ pending' = pending + Len(r.calls)
           /\ last' = [key |-> key, base |-> plain(CtorOptions).v, baseUrl |-> baseUrl,
                       override |-> overrideArg, validate |-> validateArg,
                       index |-> r.index, url |-> r.url, options |-> r.options,
                       errorsBefore |-> r.errorsBefore, out |-> r.out,
                       errors |-> r.errors, schema |-> r.schema,
                       calls |-> r.calls, returns |-> r.returns]
    /\ nCalls' = nCalls + 1
    /\ UNCHANGED << baseUrl, tree, inflight >>
    /\ UNCHANGED << matchVars, ctor, verr, tmpl >>

\* api.<key>(overrideArg, validateArg)
Call(key, overrideArg, validateArg) ==
    /\ nCalls < MaxCalls
    /\ \E r \in { fetchMethod(tree[key], compiled[key], options, baseUrl,
                             overrideArg, validateArg) } :
           /\ compiled' = [compiled EXCEPT ![key] = r.errorsAfter]
           /\ options' = afterWrite("root", r.written, fromJS(Object(r.options)), options)
           /\ callerOverride' =
                 afterWrite("override", r.written, Object(r.options), overrideArg)
           /\ fetchCount' = fetchCount + Len(r.calls)
           /\ pending' = pending + Len(r.calls)
           /\ last' = [key |-> key, base |-> plain(options).v, baseUrl |-> baseUrl,
                       override |-> overrideArg, validate |-> validateArg,
                       index |-> r.index, url |-> r.url, options |-> r.options,
                       errorsBefore |-> r.errorsBefore, out |-> r.out,
                       errors |-> r.errors, schema |-> r.schema,
                       calls |-> r.calls, returns |-> r.returns]
    /\ nCalls' = nCalls + 1
    /\ UNCHANGED << baseUrl, tree, inflight >>
    /\ UNCHANGED << matchVars, ctor, verr, tmpl >>

\* a holder of the root replaces its options: api.options = fromJS(o)
SetOptions(o) ==
    /\ fromJS(o) # options
    /\ options' = fromJS(o)
    /\ UNCHANGED << baseUrl, tree, compiled, nCalls, fetchCount, pending,
                    callerOverride, last, inflight >>
    /\ UNCHANGED << matchVars, ctor, verr, tmpl >>

\* a holder of the root replaces its baseUrl: api.baseUrl = b, while a call
\* that would read it is still to come
SetBaseUrl(b) ==
    /\ nCalls < MaxCalls
    /\ b.v # baseUrl
    /\ baseUrl' = b.v
    /\ UNCHANGED << options, tree, compiled, nCalls, fetchCount, pending,
                    callerOverride, last, inflight >>
    /\ UNCHANGED << matchVars, ctor, verr, tmpl >>

\* the promise fetch returned settles
Settle ==
    /\ pending > 0
    /\ pending' = pending - 1
    /\ UNCHANGED << baseUrl, options, tree, compiled, nCalls, fetchCount,
                    callerOverride, last, inflight >>
    /\ UNCHANGED << matchVars, ctor, verr, tmpl >>

Next ==
    \/ \E key \in Keys, o \in OverrideSet, v \in ValidateSet : Call(key, o, v)
    \/ \E o \in BaseOptionsSet : SetOptions(o)
    \/ \E b \in RootUrlSet : SetBaseUrl(b)
    \/ Settle

Spec == Init /\ [][Next]_vars

(***************************************************************************)
(* getMatchingOverload on its own, over every group of up to MaxGroup      *)
(* candidates                                                              *)
(***************************************************************************)
PathIdJ == <<"/", "p", "/", ":", "i", "/", ":", "j">>
PathJ == <<"/", "p", "/", ":", "j">>
other == <<"j">>

MaxGroup == 2

\* [pathname] and [pathname, {params: {j: ...}}]
MatchCandidates ==
    { Array(<< Str(p) >>) : p \in { PathList, PathId, PathIdJ, PathJ } }
    \cup { Array(<< Str(p), Object("params" :> Object(other :> V10)) >>) :
              p \in { PathList, PathId, PathIdJ, PathJ } }

MatchGroups ==
    UNION { [1..n -> MatchCandidates] : n \in 1..MaxGroup }

MatchBaseSet ==
    { EmptyObject, "params" :> Object(id :> V1234) }

MatchOverrideSet ==
    { EmptyObject,
      "params" :> Object(EmptyObject),
      "params" :> Object(id :> V1234),
      "params" :> Object(other :> V1234),
      "params" :> Object(id :> V1234 @@ other :> V1234) }

InitMatch ==
    /\ constructor(UNDEFINED, Tree, UNDEFINED)
    /\ mOverloads \in MatchGroups
    /\ mBase \in MatchBaseSet
    /\ mOverride \in MatchOverrideSet
    /\ mIndex = -1
    /\ mIndex_part002 = -1
    /\ mDone = FALSE
    /\ CtorIdle
    /\ ErrorIdle
    /\ PathIdle

\* const index = getMatchingOverload(config, baseOptions, overrideOptions)
Match ==
    /\ ~mDone
    /\ mIndex' = getMatchingOverload(mOverloads, mBase, mOverride)
    /\ mIndex_part002' = getMatchingOverload_part002(mOverloads, mBase, mOverride)
    /\ mDone' = TRUE
    /\ UNCHANGED << mOverloads, mBase, mOverride >>
    /\ UNCHANGED << treeVars, ctor, verr, tmpl >>

NextMatch == Match

SpecMatch == InitMatch /\ [][NextMatch]_vars

(***************************************************************************)
(* The dispatch functions over every kind of first argument, on a tree     *)
(* that also holds the group of the README's full example                  *)
(***************************************************************************)
PathV1Users == <<"/", "1", "/", "u">>
PathV2UsersId == <<"/", "2", "/", "u", "/", ":", "i">>

\* properties.params: required ['userId'], userId of type string
SchemaUserId == ParamsSchema(<<id>>, <<id>>)

\* users.get of the README: [['/v1/users'], ['/v2/users/:userId', {}, schema]]
\* put: a definition whose own options hold a firstName that is not a string
\* solo: the definition of get as the only candidate of a group
TreeWide ==
    [ get   |-> Tree.get,
      solo  |-> Array(<< Tree.get >>),
      first |-> Tree.first,
      put   |-> Array(<< Str(PathList),
                         Object("params" :> Object(firstName :> NULL)),
                         SchemaFirstName >>),
      users |-> Array(<< Array(<< Str(PathV1Users) >>),
                         Array(<< Str(PathV2UsersId), Object(EmptyObject),
                                  SchemaUserId >>) >>) ]

\* the options argument of the constructor: the README's has headers only;
\* the last one holds a firstName that is not a string
CtorOptionsWide ==
    { CtorOptions,
      Object("headers" :> HeadersA1),
      Object("params" :> Object(firstName :> NULL)) }

\* the first argument of a dispatch call: omitted, null, a primitive, an object
OverrideWide ==
    { UNDEFINED,
      NULL,
      Bool(TRUE),
      Object(EmptyObject),
      Object("params" :> Object(id :> V1234)),
      Object("params" :> Object(id :> NULL)),
      Object("params" :> Object(firstName :> V1234)),
      Object("params" :> Object(firstName :> NULL)) }

InitWide ==
    /\ \E b \in BaseUrlSet, o \in CtorOptionsWide : constructor(b, TreeWide, o)
    /\ MatchIdle
    /\ CtorIdle
    /\ ErrorIdle
    /\ PathIdle

NextWide ==
    \E key \in DOMAIN TreeWide, o \in OverrideWide, v \in ValidateSet : Call(key, o, v)

SpecWide == InitWide /\ [][NextWide]_vars

(***************************************************************************)
(* Dispatch calls whose fetch results are still to settle: fetch keeps the *)
(* url and the options object it was handed until its promise settles      *)
(***************************************************************************)
\* the first argument of a dispatch call
OverrideFlight ==
    { UNDEFINED,
      Object("params" :> Object(firstName :> V1234)),
      Object("headers" :> HeadersB3) }

\* the second argument of a dispatch call
ValidateFlight == { UNDEFINED, Bool(FALSE) }

InitFlight ==
    /\ constructor(Str(<<"h">>), Tree, CtorOptions)
    /\ MatchIdle
    /\ CtorIdle
    /\ ErrorIdle
    /\ PathIdle

\* held with one options object reused by every call: a later call writes
\* onto the object the earlier invocations hold
held_aliased(f, written, value) == [f EXCEPT !.options = value]

\* an invocation fetch holds, after a later call wrote value to the object
\* named written: the options object of the invocation changes only when it
\* is that very object (the object toJS() returns is new at every call)
held(f, written, value) ==
    IF f.ref = "fresh" THEN f
    ELSE [f EXCEPT !.options = afterWrite(f.ref, written, value, f.options)]

\* api.<key>(overrideArg, validateArg) with the fetch that keeps its arguments
Issue(key, overrideArg, validateArg) ==
    /\ nCalls < MaxCalls
    /\ \E r \in { fetchMethod(tree[key], compiled[key], options, baseUrl,
                             overrideArg, validateArg) } :
           /\ compiled' = [compiled EXCEPT ![key] = r.errorsAfter]
           /\ options' = afterWrite("root", r.written, fromJS(Object(r.options)), options)
           /\ callerOverride' =
                 afterWrite("override", r.written, Object(r.options), overrideArg)
           /\ fetchCount' = fetchCount + Len(r.calls)
           /\ pending' = pending + Len(r.calls)
           /\ last' = [key |-> key, base |-> plain(options).v, baseUrl |-> baseUrl,
                       override |-> overrideArg, validate |-> validateArg,
                       index |-> r.index, url |-> r.url, options |-> r.options,
                       errorsBefore |-> r.errorsBefore, out |-> r.out,
                       errors |-> r.errors, schema |-> r.schema,
                       calls |-> r.calls, returns |-> r.returns]
           /\ inflight' =
                 [j \in 1..Len(inflight) |-> held(inflight[j], r.written, r.options)]
                 \o [j \in 1..Len(r.calls) |->
                       [key |-> key, base |-> plain(options).v,
                        override |-> overrideArg, index |-> r.index,
                        ref |-> r.written,
                        url |-> r.calls[j].url, options |-> r.calls[j].options]]
    /\ nCalls' = nCalls + 1
    /\ UNCHANGED << baseUrl, tree >>
    /\ UNCHANGED << matchVars, ctor, verr, tmpl >>

\* the promise of invocation j settles: fetch lets go of its arguments
Land(j) ==
    /\ j \in 1..Len(inflight)
    /\ pending' = pending - 1
    /\ inflight' = SubSeq(inflight, 1, j - 1) \o SubSeq(inflight, j + 1, Len(inflight))
    /\ UNCHANGED << baseUrl, options, tree, compiled, nCalls, fetchCount,
                    callerOverride, last >>
    /\ UNCHANGED << matchVars, ctor, verr, tmpl >>

NextFlight ==
    \/ \E key \in Keys, o \in OverrideFlight, v \in ValidateFlight : Issue(key, o, v)
    \/ \E o \in BaseOptionsSet : SetOptions(o)
    \/ \E j \in 1..MaxCalls : Land(j)

SpecFlight == InitFlight /\ [][NextFlight]_vars

(***************************************************************************)
(* getTemplateVariables on its own, over every pathname of up to MaxLen    *)
(* characters                                                              *)
(***************************************************************************)
\* the characters of a pathname: the separator, the colon, a letter
PathChars == { "/", ":", "a" }

MaxLen == 5

Pathnames == UNION { [1..n -> PathChars] : n \in 0..MaxLen }

InitPath ==
    /\ constructor(UNDEFINED, Tree, UNDEFINED)
    /\ MatchIdle
    /\ CtorIdle
    /\ ErrorIdle
    /\ \E pathname \in Pathnames :
          tmpl = [phase |-> "new", pathname |-> pathname, variables |-> << >>]

\* const variables = getTemplateVariables(pathname);
Extract ==
    /\ tmpl.phase = "new"
    /\ tmpl' = [tmpl EXCEPT !.phase = "done",
                            !.variables = getTemplateVariables(tmpl.pathname)]
    /\ UNCHANGED << treeVars, matchVars, ctor, verr >>

NextPath == Extract

SpecPath == InitPath /\ [][NextPath]_vars

(***************************************************************************)
(* parse and the constructor on their own, over configuration trees of     *)
(* every node shape                                                        *)
(***************************************************************************)
\* a number, written with its digits
Num(digits) == [t |-> "number", v |-> digits]

\* a function written in the configuration tree
Fn(name) == [t |-> "function", of |-> "source", name |-> name]

\* validator.compile(schema) of ajv throws unless schema is an object or a
\* boolean.  null passes ajv's typeof test and fails at its first property
\* read.
compileThrows(schema) == schema.t \notin {"object", "boolean"}

\* generateFetchMethod(self, config) up to its return: the validators are
\* compiled when the tree is built, one per candidate (c[2] || {}) or one
\* for a single definition (schema = {})
generateThrows(config) ==
    IF isOverloaded(config)
    THEN \E index \in 0..(Len(config.v) - 1) :
            compileThrows(compiledSchema(config, index))
    ELSE compileThrows(compiledSchema(config, 0))

\* the function generateFetchMethod(self, config) returns
generateFetchMethod(self, config) ==
    [t |-> "function", of |-> "fetchMethod", self |-> self, config |-> config]

\* bind that hands the function on as it is
bind_unbound(data, self) == data

\* data.bind(self)
bind(data, self) == [t |-> "function", of |-> "bound", target |-> data, this |-> self]

\* the last branch of parse returning nothing
otherValue_dropped(data) == UNDEFINED

\* the last branch of parse: return data;
otherValue(data) == data

\* reduce starting from the node itself instead of from {}
accumulator_data(data) == [ref |-> "data", v |-> data.v]

\* the initial value of the reduce: {}, a new object
accumulator(data) == [ref |-> "fresh", v |-> EmptyObject]

\* parse(self, data): value is what it returns, data is the node it was
\* given as parse leaves it.  Object(data) === data holds for every object.
RECURSIVE parse(_, _)
parse(self, data) ==
    IF data.t = "array"
    THEN [value |-> generateFetchMethod(self, data), data |-> data]
    ELSE IF data.t = "function"
    THEN [value |-> bind(data, self), data |-> data]
    ELSE IF data.t = "object"
    THEN LET children == [k \in DOMAIN data.v |-> parse(self, data.v[k])]
             acc == accumulator(data)
             value == Object([k \in DOMAIN acc.v \cup DOMAIN data.v |->
                                IF k \in DOMAIN data.v THEN children[k].value
                                ELSE acc.v[k]])
             left == Object([k \in DOMAIN data.v |-> children[k].data])
         IN  [value |-> value, data |-> afterWrite("data", acc.ref, value, left)]
    ELSE [value |-> otherValue(data), data |-> data]

\* parse(self, data) throws: some array of the tree has a schema that
\* validator.compile rejects
RECURSIVE parseThrows(_)
parseThrows(data) ==
    IF data.t = "array" THEN generateThrows(data)
    ELSE IF data.t = "object" THEN \E k \in DOMAIN data.v : parseThrows(data.v[k])
    ELSE FALSE

\* ApiTree with this.baseUrl = baseUrl, whatever it is
ApiTree_givenBaseUrl(baseUrlArg, treeArg, optionsArg) ==
    LET this == ("baseUrl" :> baseUrlArg)
                @@ ("options" :> fromJS(Default(optionsArg, Object(EmptyObject))))
        parsed == parse("root", treeArg)
    IN  IF parseThrows(treeArg)
        THEN [thrown |-> TRUE, root |-> EmptyObject, tree |-> treeArg]
        ELSE [thrown |-> FALSE, root |-> AssignOne(this, parsed.value),
              tree |-> parsed.data]

\* new ApiTree(baseUrl, tree, options = {}): the own properties of the
\* object it builds, or thrown; tree is the tree argument after the call
ApiTree(baseUrlArg, treeArg, optionsArg) ==
    LET this == ("baseUrl" :> Or(baseUrlArg, Str(<< >>)))
                @@ ("options" :> fromJS(Default(optionsArg, Object(EmptyObject))))
        parsed == parse("root", treeArg)
    IN  IF parseThrows(treeArg)
        THEN [thrown |-> TRUE, root |-> EmptyObject, tree |-> treeArg]
        ELSE [thrown |-> FALSE, root |-> AssignOne(this, parsed.value),
              tree |-> parsed.data]

\* JSON.parse(JSON.stringify(x)) for an object x: keys holding a function or
\* undefined are left out, an immutable Map is written as the plain object
\* its toJSON gives
RECURSIVE serialise(_)
serialise(x) ==
    IF x.t \in {"object", "Map"}
    THEN Object([k \in { j \in DOMAIN x.v : x.v[j].t \notin {"function", "undefined"} }
                    |-> serialise(x.v[k])])
    ELSE x

\* test.js 'passes through other data'
TreeCount == Object("users" :> Object("count" :> Num(<<"1", "0">>)))

\* test.js 'passes through the convenience function'
TreeConvenience ==
    Object("users" :> Object("get" :> Array(<< Str(PathUsersId) >>)
                             @@ "getSpecifically" :> Fn("getSpecifically")))

TreeDeep ==
    Object("a" :> Object("b" :> Object("c" :> NULL @@ "d" :> Bool(TRUE)))
           @@ "e" :> Str(<<"x">>))

TreeEmpty == Object(EmptyObject)

TreeFunctions ==
    Object("f" :> Fn("f")
           @@ "users" :> Object("g" :> Fn("g") @@ "deep" :> Object("h" :> Fn("h"))))

\* definitions with a schema and with none: omitted, undefined, null
TreeSchema == Object("get" :> Tree.get)
TreeOmitted == Object("get" :> Array(<< Str(PathUsersId) >>))
TreeUndefinedSchema ==
    Object("get" :> Array(<< Str(PathUsersId), Object(EmptyObject), UNDEFINED >>))
TreeNullSchema ==
    Object("get" :> Array(<< Str(PathUsersId), Object(EmptyObject), NULL >>))
TreeGroupNoSchema ==
    Object("get" :> Array(<< Array(<< Str(PathList) >>),
                             Array(<< Str(PathId), Object(EmptyObject), NULL >>),
                             Array(<< Str(PathIdJ), Object(EmptyObject), UNDEFINED >>) >>))

\* a tree with keys named like the root's own properties
TreeReserved ==
    Object("baseUrl" :> Str(<<"x">>) @@ "options" :> Num(<<"5">>)
           @@ "get" :> Array(<< Str(PathList) >>))

\* the same, with no endpoint
TreeReservedPlain ==
    Object("baseUrl" :> Str(<<"x">>) @@ "users" :> Object("count" :> Num(<<"1", "0">>)))

CtorTrees ==
    { TreeCount, TreeConvenience, TreeDeep, TreeEmpty, TreeFunctions, TreeSchema,
      TreeOmitted, TreeUndefinedSchema, TreeNullSchema, TreeGroupNoSchema,
      TreeReserved, TreeReservedPlain }

\* the baseUrl argument: omitted, null, '', a string
CtorBaseUrls == { UNDEFINED, NULL, Str(<< >>), Str(<<"h">>) }

\* the options argument: omitted, {}, an object
CtorOptionsSet == { UNDEFINED, Object(EmptyObject), CtorOptions }

NotBuilt ==
    [thrown |-> FALSE, root |-> EmptyObject, treeAfter |-> UNDEFINED,
     json |-> UNDEFINED, call |-> UNDEFINED]

InitCtor ==
    /\ constructor(UNDEFINED, Tree, UNDEFINED)
    /\ MatchIdle
    /\ ErrorIdle
    /\ \E b \in CtorBaseUrls, t \in CtorTrees, o \in CtorOptionsSet :
          ctor = [phase |-> "new", baseUrl |-> b, tree |-> t, options |-> o]
                 @@ NotBuilt
    /\ PathIdle

\* const api = new ApiTree(baseUrl, tree, options)
New ==
    /\ ctor.phase = "new"
    /\ \E r \in { ApiTree(ctor.baseUrl, ctor.tree, ctor.options) } :
          ctor' = [ctor EXCEPT !.phase = "built", !.thrown = r.thrown,
                               !.root = r.root, !.treeAfter = r.tree]
    /\ UNCHANGED << treeVars, matchVars, verr, tmpl >>

\* JSON.parse(JSON.stringify(api))
Stringify ==
    /\ ctor.phase = "built"
    /\ ~ctor.thrown
    /\ ctor' = [ctor EXCEPT !.phase = "stringified",
                            !.json = serialise(Object(ctor.root))]
    /\ UNCHANGED << treeVars, matchVars, verr, tmpl >>

\* api.<key>(overrideArg, validateArg) on the tree just built;
\* self.options.toJS() throws when the root's options is not a Map
Dispatch(key, overrideArg, validateArg) ==
    /\ ctor.phase = "built"
    /\ ~ctor.thrown
    /\ key \in DOMAIN ctor.root
    /\ ctor.root[key].t = "function"
    /\ ctor.root[key].of = "fetchMethod"
    /\ ctor.root["baseUrl"].t = "string"
    /\ LET config == ctor.root[key].config
       IN  IF ctor.root["options"].t # "Map"
           THEN ctor' = [ctor EXCEPT !.phase = "called",
                            !.call = [key |-> key, override |-> overrideArg,
                                      validate |-> validateArg, out |-> "throw",
                                      index |-> -1, url |-> << >>]]
           ELSE \E r \in { fetchMethod(config, compile(config), ctor.root["options"],
                                       ctor.root["baseUrl"].v, overrideArg,
                                       validateArg) } :
                   ctor' = [ctor EXCEPT !.phase = "called",
                               !.call = [key |-> key, override |-> overrideArg,
                                         validate |-> validateArg, out |-> r.out,
                                         index |-> r.index, url |-> r.url]]
    /\ UNCHANGED << treeVars, matchVars, verr, tmpl >>

NextCtor ==
    \/ New
    \/ Stringify
    \/ \E key \in {"get"}, o \in OverrideSet, v \in ValidateSet : Dispatch(key, o, v)

SpecCtor == InitCtor /\ [][NextCtor]_vars

(***************************************************************************)
(* ValidationError (src/src/ValidationError.js) on its own                 *)
(***************************************************************************)
\* the string a template literal makes of a value
toStr(x) ==
    CASE x.t = "string" -> x.v
      [] x.t = "undefined" -> <<"u", "n", "d", "e", "f", "i", "n", "e", "d">>
      [] x.t = "null" -> <<"n", "u", "l", "l">>
      [] OTHER -> <<"[", "o", "b", "j", "e", "c", "t", " ",
                    "O", "b", "j", "e", "c", "t", "]">>

\* the entry of an error without the url
entry_noUrl(url, e) ==
    toStr(Get(e.v, "dataPath")) \o <<":", " ">> \o toStr(Get(e.v, "message"))

\* `<${url}> ${e.dataPath}: ${e.message}`
entry(url, e) ==
    <<"<">> \o toStr(url) \o <<">", " ">> \o toStr(Get(e.v, "dataPath"))
        \o <<":", " ">> \o toStr(Get(e.v, "message"))

\* JSON.stringify of a string: quoted, with quote, backslash and newline
\* escaped
RECURSIVE escaped(_)
escaped(s) ==
    IF s = << >> THEN << >>
    ELSE (CASE Head(s) = "\"" -> <<"\\", "\"">>
            [] Head(s) = "\\" -> <<"\\", "\\">>
            [] Head(s) = "\n" -> <<"\\", "n">>
            [] OTHER -> << Head(s) >>) \o escaped(Tail(s))

quoted(s) == <<"\"">> \o escaped(s) \o <<"\"">>

\* the third argument of JSON.stringify(messages, null, 4)
indent == 4

spaces(n) == [j \in 1..n |-> " "]

\* the elements of a list of strings, one per line, separated by commas
RECURSIVE elementLines(_, _)
elementLines(list, n) ==
    IF list = << >> THEN << >>
    ELSE spaces(n) \o quoted(Head(list))
         \o (IF Tail(list) = << >> THEN << >> ELSE <<",", "\n">>)
         \o elementLines(Tail(list), n)

\* JSON.stringify(list, null, n) for a list of strings
stringify(list, n) ==
    IF list = << >> THEN <<"[", "]">>
    ELSE <<"[", "\n">> \o elementLines(list, n) \o <<"\n", "]">>

\* new ValidationError(url, errors = [], schema): errors.map(...) throws a
\* TypeError when errors is not an array
ValidationError(urlArg, errorsArg, schemaArg) ==
    LET errors == Default(errorsArg, Array(<< >>))
    IN  IF errors.t # "array"
        THEN [thrown |-> TRUE, message |-> << >>, errors |-> UNDEFINED,
              schema |-> UNDEFINED]
        ELSE LET messages == [n \in 1..Len(errors.v) |-> entry(urlArg, errors.v[n])]
             IN  [thrown |-> FALSE,
                  message |-> stringify(messages, indent),
                  errors |-> errors,
                  schema |-> schemaArg]

\* toString() { return `ValidationError: ${this.message}`; }
toString(error) ==
    <<"V", "a", "l", "i", "d", "a", "t", "i", "o", "n", "E", "r", "r", "o", "r",
      ":", " ">> \o error.message

\* {dataPath, message} records
ErrorP == Object("dataPath" :> Str(<<".", "p">>) @@ "message" :> Str(<<"m">>))
ErrorQ == Object("dataPath" :> Str(<<".", "q">>) @@ "message" :> Str(<<"n">>))
\* a message with a double quote in it, as ajv's pattern messages have
ErrorQuote == Object("dataPath" :> Str(<< >>) @@ "message" :> Str(<<"x", "\"", "y">>))

ErrorRecords == { ErrorP, ErrorQ, ErrorQuote }

\* the length of the errors argument
MaxErrors == 2

\* ValidationError.test.js: a mapping of a scope key to records, or to null
ScopeRecords == Object("params" :> Array(<< ErrorP >>))
ScopeNull == Object("params" :> NULL)

\* the first argument
ErrorUrls == { UNDEFINED, Str(<<"h", "/", "p">>), ScopeRecords, ScopeNull }

\* the second argument: omitted, a list of records, a mapping
ErrorLists ==
    { UNDEFINED, ScopeRecords }
    \cup { Array(a) : a \in UNION { [1..n -> ErrorRecords] : n \in 0..MaxErrors } }

\* the third argument
ErrorSchemas == { UNDEFINED, Str(<<"s">>) }

InitError ==
    /\ constructor(UNDEFINED, Tree, UNDEFINED)
    /\ MatchIdle
    /\ CtorIdle
    /\ \E u \in ErrorUrls, e \in ErrorLists, s \in ErrorSchemas :
          verr = [phase |-> "new", url |-> u, errors |-> e, schema |-> s,
                  error |-> UNDEFINED, string |-> << >>]
    /\ PathIdle

\* const error = new ValidationError(url, errors, schema)
NewError ==
    /\ verr.phase = "new"
    /\ verr' = [verr EXCEPT !.phase = "built",
                            !.error = ValidationError(verr.url, verr.errors,
                                                      verr.schema)]
    /\ UNCHANGED << treeVars, matchVars, ctor, tmpl >>

\* ValidationError.prototype.toString.apply(error)
ApplyToString ==
    /\ verr.phase = "built"
    /\ ~verr.error.thrown
    /\ verr' = [verr EXCEPT !.phase = "printed", !.string = toString(verr.error)]
    /\ UNCHANGED << treeVars, matchVars, ctor, tmpl >>

NextError ==
    \/ NewError
    \/ ApplyToString

SpecError == InitError /\ [][NextError]_vars

(***************************************************************************)
(* Properties of the dispatch functions                                    *)
(***************************************************************************)
\* a step of Next that is a dispatch call
IsCall == nCalls' # nCalls

\* the validate flag of a call, with its default
flagOf(call) == Truthy(Default(call.validate, Bool(TRUE)))

\* the effective options of a call fail the schema of the endpoint it chose
failsSchema(call) ==
    Validate(compiledSchema(tree[call.key], call.index), call.options).t = "array"

\* C1: a call with validate = true whose effective options fail the schema of
\* its endpoint is rejected with a ValidationError carrying the errors, and
\* the call invokes no fetch: the number of invocations is the one before it.
C1_ValidationBlocksFetch ==
    [][(IsCall /\ flagOf(last') /\ failsSchema(last'))
        => /\ last'.out = "ValidationError"
           /\ last'.errors.t = "array"
           /\ fetchCount' = fetchCount
           /\ pending' = pending]_vars

\* a rejected call on a group, after a call that reached fetch
C1_Witness ==
    /\ last.key = "last"
    /\ last.out = "ValidationError"
    /\ nCalls = 2
    /\ fetchCount = 1

onFreshTree(call) ==
    fetchMethod(tree[call.key], compile(tree[call.key]), fromJS(Object(call.base)),
                call.baseUrl, call.override, call.validate)

\* C3: the url, the effective options and the outcome of a call are those the
\* same call has on a freshly built tree with the same base options: nothing
\* that earlier calls left behind changes them.
C3_NoHiddenState ==
    last.out # "none" =>
        LET fresh == onFreshTree(last)
        IN  /\ last.url = fresh.url
            /\ last.options = fresh.options
            /\ last.out = fresh.out
            /\ last.errors = fresh.errors

\* a valid call that follows an invalid call on the same validator
C3_Witness ==
    /\ last.errorsBefore.t = "array"
    /\ flagOf(last)
    /\ last.out = "fetch"

(***************************************************************************)
(* Properties of the overload matcher                                      *)
(***************************************************************************)
\* C4: on a non-empty group both matchers return one index of the group,
\* 0 <= index < length, never -1, whatever the base, endpoint and override
\* params.
C4_IndexInRange ==
    mDone =>
        /\ mIndex \in 0..(Len(mOverloads) - 1)
        /\ mIndex_part002 \in 0..(Len(mOverloads) - 1)

\* no candidate has a placeholder present (src/src/index.js counts 0 for all)
\* and every candidate of part_002 scores below 0
C4_Witness ==
    /\ mDone
    /\ Len(mOverloads) = 2
    /\ \A j \in 1..Len(mOverloads) :
          /\ countOf(mOverloads[j], mBase, OrEmpty(Get(mOverride, "params"))) = 0
          /\ countOf_part002(mOverloads[j], mBase, OrEmpty(Get(mOverride, "params"))) < 0

\* the keys of the params of a scope
paramKeys(scope) == DOMAIN OrEmpty(Get(scope, "params"))

\* the placeholders of candidate o that are keys of the base params, of the
\* params of o or of the override params, counted with their repetitions
presentIn(o, base, override) ==
    LET variables == getTemplateVariables(At(o, 0).v)
    IN  Cardinality({ j \in 1..Len(variables) :
            variables[j] \in paramKeys(base) \cup paramKeys(OrEmpty(At(o, 1)))
                                \cup paramKeys(override) })

absentIn(o, base, override) ==
    LET variables == getTemplateVariables(At(o, 0).v)
    IN  Len(variables) - presentIn(o, base, override)

\* C21: in part_002 the initial best score -1 is below the score of every
\* candidate, present placeholders minus absent ones, and the index returned
\* is the smallest among the candidates whose score is maximal.
C21_SentinelBelowEveryScore ==
    mDone =>
        LET n == Len(mOverloads)
            score(j) == presentIn(mOverloads[j], mBase, mOverride)
                        - absentIn(mOverloads[j], mBase, mOverride)
            best == { j \in 1..n : \A k \in 1..n : score(k) <= score(j) }
        IN  /\ \A j \in 1..n : score(j) > -1
            /\ mIndex_part002 + 1 \in best
            /\ \A j \in best : mIndex_part002 + 1 <= j

\* the placeholders of candidate o, as a set
placeholders(o) ==
    LET variables == getTemplateVariables(At(o, 0).v)
    IN  { variables[j] : j \in 1..Len(variables) }

\* the param keys supplied to candidate o: those of the base params, of its
\* own endpoint params and of the override params
suppliedKeys(o, base, override) ==
    paramKeys(base) \cup paramKeys(OrEmpty(At(o, 1))) \cup paramKeys(override)

\* C22 as claimed: the two matchers return the same index unless the
\* placeholders of some candidate are a strict superset of the supplied
\* param keys.
C22_SameUnlessStrictSuperset ==
    (/\ mDone
     /\ ~\E j \in 1..Len(mOverloads) :
            LET keys == suppliedKeys(mOverloads[j], mBase, mOverride)
            IN  keys \subseteq placeholders(mOverloads[j])
                /\ keys # placeholders(mOverloads[j]))
        => mIndex = mIndex_part002

\* C22, amended: the two matchers return the same index unless some
\* candidate has a placeholder that is not among the param keys supplied to
\* it.
C22_SameUnlessAbsentPlaceholder ==
    (/\ mDone
     /\ \A j \in 1..Len(mOverloads) :
            placeholders(mOverloads[j])
                \subseteq suppliedKeys(mOverloads[j], mBase, mOverride))
        => mIndex = mIndex_part002

\* /p/:i then /p/:i/:j with both params supplied: both matchers pass over
\* the first candidate and return the second
C22_Witness ==
    /\ mDone
    /\ Len(mOverloads) = 2
    /\ placeholders(mOverloads[1]) = {id}
    /\ placeholders(mOverloads[2]) = {id, other}
    /\ {id, other} \subseteq paramKeys(mOverride)
    /\ mIndex = 1
    /\ mIndex_part002 = 1

\* C23: the count getMatchingOverload gives a candidate is the number of its
\* placeholders that are a key of the base params, of the candidate's own
\* endpoint params or of the override params; the endpoint params of the
\* other candidates of the group are no part of it.
C23_ScoreFromOwnScopes ==
    mDone =>
        \A j \in 1..Len(mOverloads) :
            countOf(mOverloads[j], mBase, OrEmpty(Get(mOverride, "params")))
                = Cardinality({ n \in 1..Len(getTemplateVariables(At(mOverloads[j], 0).v)) :
                      getTemplateVariables(At(mOverloads[j], 0).v)[n]
                          \in suppliedKeys(mOverloads[j], mBase, mOverride) })

\* /p/:j twice, the second with endpoint params {j} and j in no other scope:
\* the first counts 0, the second 1, and the second is returned
C23_Witness ==
    /\ mDone
    /\ Len(mOverloads) = 2
    /\ mOverloads[1] = Array(<< Str(PathJ) >>)
    /\ mOverloads[2] = Array(<< Str(PathJ), Object("params" :> Object(other :> V10)) >>)
    /\ other \notin paramKeys(mBase) \cup paramKeys(mOverride)
    /\ countOf(mOverloads[1], mBase, OrEmpty(Get(mOverride, "params"))) = 0
    /\ mIndex = 1

(***************************************************************************)
(* Properties of the dispatch functions, continued                         *)
(***************************************************************************)
\* the endpoint definition a call chose
chosen(call) ==
    IF isOverloaded(tree[call.key]) THEN At(tree[call.key], call.index)
    ELSE tree[call.key]

\* the three scopes of a call: base, endpoint, override
endpointScope(call) == OrEmpty(At(chosen(call), 1))
overrideScope(call) == OrEmpty(call.override)

\* C5: on a group made of P/:id and P, in either order, a call whose params
\* contain id goes to P/:id and a call with no params goes to P.
C5_PlaceholderFreeWhenNoParams ==
    (last.out # "none" /\ last.key \in {"first", "last"}) =>
        LET given == paramKeys(last.base) \cup paramKeys(overrideScope(last))
        IN  /\ id \in given => last.url = last.baseUrl \o PathId
            /\ given = {} => last.url = last.baseUrl \o PathList

\* the value of key k under the precedence override, endpoint, base
byPrecedence(base, endpoint, override, k) ==
    IF k \in DOMAIN override THEN override[k]
    ELSE IF k \in DOMAIN endpoint THEN endpoint[k]
    ELSE base[k]

\* Object.assign({}, baseOptions, endpointOptions, overrideOptions), key by key
assigned(base, endpoint, override) ==
    [k \in DOMAIN base \cup DOMAIN endpoint \cup DOMAIN override |->
        byPrecedence(base, endpoint, override, k)]

\* C7: the options handed to fetch are Object.assign({}, base, endpoint,
\* override): per top-level key the override value, else the endpoint value,
\* else the base value, each taken whole.
C7_MergePrecedence ==
    last.out = "fetch" =>
        last.options = assigned(last.base, endpointScope(last), overrideScope(last))

\* headers defined by the three scopes: the override's headers are handed on
C7_Witness ==
    /\ last.out = "fetch"
    /\ "headers" \in DOMAIN last.base
    /\ "headers" \in DOMAIN endpointScope(last)
    /\ "headers" \in DOMAIN overrideScope(last)
    /\ last.options["headers"] = HeadersB3

C10_InputsUnchanged ==
    [][IsCall =>
        /\ options' = options
        /\ tree' = tree
        /\ callerOverride' = last'.override]_vars

\* a call on a single definition whose merge differs from the base options
C10_Witness ==
    /\ last.key = "get"
    /\ last.out # "none"
    /\ last.options # last.base
    /\ plain(options).v = last.base
    /\ callerOverride = last.override


\* the path template of the endpoint a call chose, as the definition writes it
templateOf(call) == At(chosen(call), 0).v

\* C11: the url a call hands to fetch, and the url of the ValidationError it
\* rejects with, is the root's baseUrl at the time of the call followed by the
\* path template of the chosen endpoint, placeholders as written.
C11_UrlIsBaseUrlThenTemplate ==
    [][IsCall
        => /\ last'.url = baseUrl \o templateOf(last')
           /\ last'.out = "fetch" => last'.calls[1].url = baseUrl \o templateOf(last')
           /\ last'.out = "ValidationError"
                => last'.returns.reason.url = baseUrl \o templateOf(last')]_vars

\* a rejected call on /u/:i with the param i supplied, on a root whose
\* baseUrl is not empty
C11_Witness ==
    /\ last.out = "ValidationError"
    /\ last.baseUrl = <<"h">>
    /\ id \in DOMAIN OrEmpty(Get(last.options, "params"))
    /\ last.returns.reason.url = <<"h", "/", "u", "/", ":", "i">>

C13_NeverThrows ==
    [][IsCall => last'.returns.of \in {"fetch", "Promise.reject"}]_vars

\* C18: on the tree of the README's full example, users.get() with no
\* arguments and base options that have no params is rejected with a
\* ValidationError whose errors report the required param userId as missing.
C18_ReadmeGetWithoutIdRejected ==
    [][(IsCall /\ last'.key = "users" /\ last'.override = UNDEFINED
             /\ last'.validate = UNDEFINED /\ "params" \notin DOMAIN last'.base)
        => /\ last'.out = "ValidationError"
           /\ last'.errors.t = "array"
           /\ \E n \in 1..Len(last'.errors.v) :
                 /\ last'.errors.v[n].keyword = "required"
                 /\ last'.errors.v[n].params = id]_vars

(***************************************************************************)
(* Properties of the constructor and of parse                              *)
(***************************************************************************)
\* the constructor has run and returned an object
Built == ctor.phase \in {"built", "stringified", "called"} /\ ~ctor.thrown

RECURSIVE plainOnly(_)
plainOnly(x) ==
    IF x.t = "object" THEN \A k \in DOMAIN x.v : plainOnly(x.v[k])
    ELSE x.t \in {"null", "boolean", "number", "string"}

\* the root's own baseUrl and options as they serialise
rootSiblings ==
    ("baseUrl" :> (IF Truthy(ctor.baseUrl) THEN ctor.baseUrl ELSE Str(<< >>)))
    @@ ("options" :> Default(ctor.options, Object(EmptyObject)))

\* C15: built from a tree of plain mappings and primitive values only, the
\* root serialises to the tree as given, key by key at every depth, plus the
\* siblings baseUrl and options on the keys the tree does not have, and the
\* tree that was passed in is the same after the construction.
C15_PlainTreePassesThrough ==
    (ctor.phase = "stringified" /\ plainOnly(ctor.tree))
        => /\ DOMAIN ctor.json.v = DOMAIN ctor.tree.v \cup {"baseUrl", "options"}
           /\ \A k \in DOMAIN ctor.json.v :
                 ctor.json.v[k] = IF k \in DOMAIN ctor.tree.v THEN ctor.tree.v[k]
                                  ELSE rootSiblings[k]
           /\ ctor.treeAfter = ctor.tree

\* three levels of mappings with null, boolean and string leaves
C15_Witness ==
    /\ ctor.phase = "stringified"
    /\ ctor.tree = TreeDeep
    /\ ctor.options = CtorOptions
    /\ ctor.json.v["a"] = Object("b" :> Object("c" :> NULL @@ "d" :> Bool(TRUE)))
    /\ ctor.json.v["options"] = CtorOptions

\* value is what the claim says parse makes of the node data
RECURSIVE shaped(_, _)
shaped(data, value) ==
    CASE data.t = "array" ->
            /\ value.t = "function"
            /\ value.of = "fetchMethod"
            /\ value.config = data
            /\ value.self = "root"
      [] data.t = "function" ->
            /\ value.t = "function"
            /\ value.of = "bound"
            /\ value.target = data
            /\ value.this = "root"
      [] data.t = "object" ->
            /\ value.t = "object"
            /\ DOMAIN value.v = DOMAIN data.v
            /\ \A k \in DOMAIN data.v : shaped(data.v[k], value.v[k])
      [] OTHER -> value = data

noSchema(definition) == At(definition, 2).t \in {"undefined", "null"}

\* the definition, or some member of the group, has no schema
someNoSchema(config) ==
    IF isOverloaded(config)
    THEN \E index \in 0..(Len(config.v) - 1) : noSchema(At(config, index))
    ELSE noSchema(config)

\* the definition the call of the constructor's specification chose
calledDefinition ==
    LET config == ctor.tree.v[ctor.call.key]
    IN  IF isOverloaded(config) THEN At(config, ctor.call.index) ELSE config

\* C17: a tree whose endpoint has no schema (omitted, undefined or null), as
\* a single definition or as a member of a group, is built without throwing,
\* and a call that goes to such a definition reaches fetch whatever its
\* arguments.  Trees with a key named options are left to C30.
C17_NoSchemaBuildsAndPasses ==
    /\ (/\ ctor.phase \in {"built", "stringified", "called"}
        /\ "get" \in DOMAIN ctor.tree.v
        /\ ctor.tree.v["get"].t = "array"
        /\ someNoSchema(ctor.tree.v["get"]))
          => ~ctor.thrown
    /\ (/\ ctor.phase = "called"
        /\ "options" \notin DOMAIN ctor.tree.v
        /\ noSchema(calledDefinition))
          => ctor.call.out = "fetch"

(***************************************************************************)
(* Properties of ValidationError                                           *)
(***************************************************************************)
\* the pieces of a text between its newline characters
RECURSIVE linesOf(_)
linesOf(text) ==
    IF \A j \in 1..Len(text) : text[j] # "\n" THEN << text >>
    ELSE LET cut == CHOOSE j \in 1..Len(text) :
                        /\ text[j] = "\n"
                        /\ \A h \in 1..(j - 1) : text[h] # "\n"
         IN  << SubSeq(text, 1, cut - 1) >>
             \o linesOf(SubSeq(text, cut + 1, Len(text)))

\* '<url> dataPath: message' for the error e, in double quotes
quotedEntry(url, e) ==
    quoted(<<"<">> \o toStr(url) \o <<">", " ">> \o toStr(e.v["dataPath"])
           \o <<":", " ">> \o toStr(e.v["message"]))

FourSpaces == <<" ", " ", " ", " ">>

\* C19: for a list of errors, or none given, the message of the error is a
\* JSON list with one line per error, in order, each four spaces and the
\* string '<url> dataPath: message', between a line [ and a line ]; it is []
\* for no errors, so for no arguments at all; errors and schema are kept on
\* the error, and toString gives 'ValidationError: ' and the message.
C19_MessageListsErrors ==
    (verr.phase \in {"built", "printed"} /\ verr.errors.t \in {"undefined", "array"})
      => LET given == Default(verr.errors, Array(<< >>))
             k == Len(given.v)
             lines == linesOf(verr.error.message)
         IN  /\ ~verr.error.thrown
             /\ k = 0 => verr.error.message = <<"[", "]">>
             /\ k > 0 =>
                  /\ Len(lines) = k + 2
                  /\ lines[1] = <<"[">>
                  /\ lines[k + 2] = <<"]">>
                  /\ \A n \in 1..k :
                        lines[n + 1] = FourSpaces \o quotedEntry(verr.url, given.v[n])
                                       \o (IF n < k THEN <<",">> ELSE << >>)
             /\ verr.error.errors = given
             /\ verr.error.schema = verr.schema
             /\ verr.phase = "printed" =>
                  verr.string = <<"V", "a", "l", "i", "d", "a", "t", "i", "o", "n",
                                  "E", "r", "r", "o", "r", ":", " ">>
                                \o verr.error.message

\* two errors, the second with a double quote in its message
C19_Witness ==
    /\ verr.phase = "printed"
    /\ verr.url = Str(<<"h", "/", "p">>)
    /\ verr.errors = Array(<< ErrorP, ErrorQuote >>)
    /\ verr.error.message =
          <<"[", "\n",
            " ", " ", " ", " ", "\"", "<", "h", "/", "p", ">", " ", ".", "p", ":",
            " ", "m", "\"", ",", "\n",
            " ", " ", " ", " ", "\"", "<", "h", "/", "p", ">", " ", ":", " ", "x",
            "\\", "\"", "y", "\"", "\n",
            "]">>

\* the mapping of a scope key to records a ValidationError is constructed
\* from: the only argument, as ValidationError.test.js passes it, or the
\* errors argument
scopeMapping ==
    IF verr.errors.t = "object" THEN verr.errors
    ELSE IF verr.errors.t = "undefined" /\ verr.url.t = "object" THEN verr.url
    ELSE UNDEFINED

Params == <<"p", "a", "r", "a", "m", "s">>

\* '<scope><dataPath>: <message>' for every record of the scope params; no
\* entry when the value of the scope is null
scopeEntries(mapping) ==
    LET records == mapping.v["params"]
    IN  IF records.t # "array" THEN << >>
        ELSE [n \in 1..Len(records.v) |->
                Params \o toStr(records.v[n].v["dataPath"]) \o <<":", " ">>
                    \o toStr(records.v[n].v["message"])]

\* C20: a ValidationError constructed from a mapping of a scope key to a
\* list of {dataPath, message} records is constructed without a throw and
\* its message is the JSON list of one entry '<scope><dataPath>: <message>'
\* per record, which is [] for a scope whose value is null.
C20_MessageFromScopeMapping ==
    (verr.phase \in {"built", "printed"} /\ scopeMapping.t = "object")
      => /\ ~verr.error.thrown
         /\ verr.error.message = stringify(scopeEntries(scopeMapping), indent)

\* the 0-based index of the first candidate of a group with the most
\* placeholders present
firstBest(group, base, override) ==
    LET n == Len(group)
        best == { j \in 1..n :
                    \A k \in 1..n : presentIn(group[k], base, override)
                                        <= presentIn(group[j], base, override) }
    IN  (CHOOSE j \in best : \A k \in best : j <= k) - 1

\* C24: on a call of an overloaded dispatch function the url, the endpoint
\* options merged, the schema applied and the schema and url of the
\* ValidationError are those of the one candidate the matcher selects, and
\* the validators of the other candidates are left as they were.
C24_AllFromSelectedCandidate ==
    [][(IsCall /\ isOverloaded(tree[last'.key]))
        => \A index \in { firstBest(tree[last'.key].v, last'.base,
                                    overrideScope(last')) } :
           \A candidate \in { At(tree[last'.key], index) } :
           \A ownSchema \in { Default(At(candidate, 2), Object(EmptyObject)) } :
           \A merged \in { assigned(last'.base, OrEmpty(At(candidate, 1)),
                                    overrideScope(last')) } :
           \A found \in { Validate(ownSchema, merged) } :
               /\ last'.index = index
               /\ last'.url = baseUrl \o At(candidate, 0).v
               /\ last'.options = merged
               /\ flagOf(last') => last'.errors = found
               /\ last'.out = "ValidationError"
                    => /\ last'.returns.reason.schema = ownSchema
                       /\ last'.returns.reason.url = baseUrl \o At(candidate, 0).v
                       /\ last'.returns.reason.errors = found
               /\ \A j \in 1..Len(tree[last'.key].v) :
                     j # index + 1 => compiled'[last'.key][j] = compiled[last'.key][j]]_vars

\* the second candidate of a group selected and its schema, which the first
\* has not, rejecting the call
C24_Witness ==
    /\ last.key = "last"
    /\ last.index = 1
    /\ last.out = "ValidationError"
    /\ last.returns.reason.schema = SchemaFirstName
    /\ last.returns.reason.url = <<"h">> \o PathId


\* the elements of a list
Range(list) == { list[j] : j \in 1..Len(list) }

\* data breaks a rule of schema: its params is no object, lacks a required
\* name, or holds a value that is not a string under a name typed string
violates(schema, data) ==
    /\ "params" \in DOMAIN schema.v
    /\ "params" \in DOMAIN data
    /\ \/ data["params"].t # "object"
       \/ \E n \in Range(schema.v["params"].required) :
             n \notin DOMAIN data["params"].v
       \/ \E n \in Range(schema.v["params"].strings) :
             /\ n \in DOMAIN data["params"].v
             /\ data["params"].v[n].t # "string"

fromBase(call, base) ==
    call.options = assigned(base, endpointScope(call), overrideScope(call))

\* C26: in every interleaving of dispatch calls, changes of the root's
\* options and settling fetch results, a call merges and validates the base
\* options the root holds when the call is made; every invocation fetch
\* still holds keeps the url and the options it was handed, computed from the
\* base options of its own call, through later changes of the root's options
\* and through later calls.
C26_CallsIsolated ==
    [][/\ \A j \in 1..Len(inflight') :
              fromBase(inflight'[j], inflight'[j].base)
       /\ IsCall
            => /\ fromBase(last', plain(options).v)
               /\ flagOf(last')
                    => ((last'.out = "ValidationError")
                          <=> violates(compiledSchema(tree[last'.key], last'.index),
                                       last'.options))
               /\ SubSeq(inflight', 1, Len(inflight)) = inflight
               /\ Len(inflight') = Len(inflight) + Len(last'.calls)
               /\ last'.out = "fetch"
                    => /\ inflight'[Len(inflight')].options = last'.options
                       /\ inflight'[Len(inflight')].base = plain(options).v
       /\ (~IsCall /\ options' # options) => inflight' = inflight]_vars

\* two invocations fetch holds, handed options computed from different base
\* options, and the root's options changed again after the second call
C26_Witness ==
    /\ Len(inflight) = 2
    /\ inflight[1].base # inflight[2].base
    /\ inflight[1].options # inflight[2].options
    /\ plain(options).v # inflight[2].base
    /\ plain(options).v # inflight[1].base


(***************************************************************************)
(* Properties of getTemplateVariables                                      *)
(***************************************************************************)
\* the position of the first "/" of pathname at or after i, Len + 1 if none
RECURSIVE nextSlash(_, _)
nextSlash(pathname, i) ==
    IF i > Len(pathname) \/ pathname[i] = "/" THEN i
    ELSE nextSlash(pathname, i + 1)

\* pathname split at every "/": its segments from position i on
RECURSIVE segmentsFrom(_, _)
segmentsFrom(pathname, i) ==
    LET e == nextSlash(pathname, i)
    IN  IF e > Len(pathname) THEN << SubSeq(pathname, i, Len(pathname)) >>
        ELSE << SubSeq(pathname, i, e - 1) >> \o segmentsFrom(pathname, e + 1)

\* the names of the segments that begin with ":", left to right: the
\* remainder of each such segment
RECURSIVE colonNames(_)
colonNames(segments) ==
    IF segments = << >> THEN << >>
    ELSE IF Head(segments) # << >> /\ Head(Head(segments)) = ":"
         THEN << Tail(Head(segments)) >> \o colonNames(Tail(segments))
         ELSE colonNames(Tail(segments))

\* C27: getTemplateVariables returns, left to right, exactly the names of
\* the segments of the pathname that begin with ":", each name the remainder
\* of its segment; a pathname with no such segment gives the empty list.
C27_ExactlyColonSegments ==
    tmpl.phase = "done" =>
        tmpl.variables = colonNames(segmentsFrom(tmpl.pathname, 1))


(***************************************************************************)
(* Properties of a group of one candidate                                  *)
(***************************************************************************)
\* C28: a call on the single definition get gives the url, the effective
\* options and the outcome (fetch, ValidationError or a thrown error) that
\* the same call gives on solo, the group holding that definition alone.
C28_GroupOfOneLikeSingle ==
    [][(IsCall /\ last'.key = "get")
        => \A r \in { fetchMethod(tree["solo"], compiled["solo"], options,
                                  baseUrl, last'.override, last'.validate) } :
               /\ tree["solo"] = Array(<< tree["get"] >>)
               /\ r.url = last'.url
               /\ r.options = last'.options
               /\ r.out = last'.out]_vars


(***************************************************************************)
(* Properties of the matcher and the effective options together            *)
(***************************************************************************)
\* the placeholders of the candidate a call chose that the matcher counted
\* as present: those among the param keys of the three scopes
countedPresent(call) ==
    placeholders(chosen(call))
        \cap suppliedKeys(chosen(call), call.base, overrideScope(call))

\* C29: when a call on a group reaches fetch, every placeholder the matcher
\* counted as present for the chosen candidate is a key of the params of the
\* options handed to fetch.
C29_CountedPlaceholdersInParams ==
    (last.out = "fetch" /\ isOverloaded(tree[last.key]))
        => countedPresent(last) \subseteq paramKeys(last.options)


(***************************************************************************)
(* Properties of the root after construction                               *)
(***************************************************************************)
\* the tree-wide options built from the options argument of the constructor
treeWideOptions(optionsArg) ==
    IF optionsArg = UNDEFINED THEN fromJS(Object(EmptyObject)) ELSE fromJS(optionsArg)

\* C30: whatever the keys of the configuration tree, the root built by the
\* constructor has as baseUrl the baseUrl argument ('' when the argument is
\* falsy) and as options the tree-wide options built from the options
\* argument, and a dispatch function of the root reads them: its url starts
\* with that baseUrl and it does not throw on an object override.
C30_RootKeepsCtorArguments ==
    Built =>
        /\ ctor.root["baseUrl"] =
              IF ctor.baseUrl \in {UNDEFINED, NULL, Str(<< >>)} THEN Str(<< >>)
              ELSE ctor.baseUrl
        /\ ctor.root["options"] = treeWideOptions(ctor.options)
        /\ ctor.phase = "called" => ctor.call.out # "throw"

=============================================================================
